---- MODULE Spec2Model ----
(***************************************************************************)
(* The project store of asreview/project.py: one project path on one       *)
(* filesystem, used by several processes, each through its own Project     *)
(* handle.  A step of the model is one filesystem call of the code (stat,  *)
(* mkdir, flock, open, dump, rmtree) together with the pure computation    *)
(* that follows it in the same method.                                     *)
(***************************************************************************)
EXTENDS Naturals, Sequences, FiniteSets, TLC

VARIABLES
    dirExists,  \* the directory project_path exists
    subdirs,    \* which of data/, feature_matrices/, reviews/ exist under it
    disk,       \* project.json: NoFile, Torn (opened "w", not yet dumped) or a document
    lockFile,   \* project.json.lock exists
    lockHeld,   \* processes holding the flock on the lock file now at that path
    fdLive,     \* processes whose open write descriptor is the file now at project.json
    fmFiles,    \* the <method>_feature_matrix.npz files: pairs <<method, matrix>>
    reviewDirs, \* review ids with a directory reviews/<id>/
    errorFile,  \* error.json: NoFile or the message written by set_error
    dataFiles,  \* names of the dataset files in data/
    dataPickle, \* tmp/data.pickle: NoFile, Corrupt or the pickled (dataset, version)
    bundle,     \* beside the project: the export destination, the copied
                \* directory <dest>.zip and the packed file <dest>.zip.zip
    root,       \* the projects folder that load moves into: a tree per id
    pc,         \* per process: position in the running method
    op,         \* per process: the method it is in
    args,       \* per process: its arguments
    cache,      \* per process: the handle's self._config, NoConfig when unset
    result,     \* per process: how its last call ended ("ok" or the exception), and
                \* inside Project.create the exception its handler caught (err)
    waited,     \* per process: seconds spent polling the lock
    touched,    \* per process: its call has changed the file project.json
    hist        \* observer: the call that returned last, and the tree before a call

\* the files beside project.json, its lock and the feature matrices
bvars == <<bundle, root>>
xfs == <<reviewDirs, errorFile, dataFiles, dataPickle, bvars>>
fsvars == <<dirExists, subdirs, disk, lockFile, lockHeld, fdLive, fmFiles, xfs>>
pvars == <<pc, op, args, cache, result, waited, touched>>
vars == <<dirExists, subdirs, disk, lockFile, lockHeld, fdLive, fmFiles,
          reviewDirs, errorFile, dataFiles, dataPickle, bundle, root,
          pc, op, args, cache, result, waited, touched, hist>>

Procs == {"p1", "p2"}

(***************************************************************************)
(* Values                                                                  *)
(***************************************************************************)
NULL == "<None>"
NonString == "<not a string>"
Stem == "demo"
VERSION == "<__version__>"
OLD_VERSION == "<__version__ of an earlier release>"
Now == "<now>"

PATH_FEATURE_MATRICES == "feature_matrices"
ProjectDirs == {"data", PATH_FEATURE_MATRICES, "reviews"}

PROJECT_MODES == {"oracle", "explore", "simulate"}

LOCK_TIMEOUT == 3

MaxMatrices == 2
MaxReviews == 2

NoFile == [kind |-> "absent"]
Torn == [kind |-> "torn"]
Corrupt == [kind |-> "corrupt"]
NoConfig == [kind |-> "unset"]
NoArgs == [kind |-> "none"]

IsDoc(d) == "kind" \notin DOMAIN d

is_project == disk # NoFile

\* jsonschema.validate(instance=config, schema=SCHEMA)
SchemaValid(config) ==
    /\ {"version", "id", "mode", "name"} \subseteq DOMAIN config
    /\ config["mode"] \in PROJECT_MODES
    /\ config["name"] \notin {NULL, NonString}
    /\ config["id"] \notin {NULL, NonString}

\* a merge that loses the keyword arguments
MergeKeepsOld(config, kwargs) == config

\* a merge that drops the keys of the old document that Project.create did not write
MergeDropsUnknown(config, kwargs) ==
    [k \in (DOMAIN config \cap
            {"version", "id", "mode", "name", "description", "authors",
             "created_at_unix", "datetimeCreated", "reviews", "feature_matrices",
             "tags"}) \cup DOMAIN kwargs |->
        IF k \in DOMAIN kwargs THEN kwargs[k] ELSE config[k]]

\* dict.update
Merge(config, kwargs) ==
    [k \in DOMAIN config \cup DOMAIN kwargs |->
        IF k \in DOMAIN kwargs THEN kwargs[k] ELSE config[k]]

\* a config dict that takes the default mode, whatever project_mode is
InitialConfigDefaultMode(a) ==
    [version |-> VERSION,
     id |-> Stem,
     mode |-> "oracle",
     name |-> a.name,
     description |-> NULL,
     authors |-> NULL,
     created_at_unix |-> Now,
     datetimeCreated |-> Now,
     reviews |-> <<>>,
     feature_matrices |-> <<>>,
     tags |-> NULL]

\* the config dict of Project.create
InitialConfig(a) ==
    [version |-> VERSION,
     id |-> Stem,
     mode |-> a.mode,
     name |-> a.name,
     description |-> NULL,
     authors |-> NULL,
     created_at_unix |-> Now,
     datetimeCreated |-> Now,
     reviews |-> <<>>,
     feature_matrices |-> <<>>,
     tags |-> NULL]

(***************************************************************************)
(* Inputs                                                                  *)
(***************************************************************************)
CreateModes == {"oracle", "simulate", "archive"}
CreateNames == {NULL, NonString}
Methods == {"tfidf"}
FeatureMatrices ==
    {[type |-> "ndarray", val |-> "X1"],
     [type |-> "csr_matrix", val |-> "X2"],
     [type |-> "list", val |-> "X1"]}

ReviewIds == {"r1", "r2"}
Statuses == {"setup", "running", "review"}
Errors == {[type |-> "ValueError", str |-> "no priors"],
           [type |-> "KeyError", str |-> "'label'"]}

Ka == [a |-> "1"]
Kb == [b |-> "2"]
KMode == [mode |-> "simulate"]
KBadMode == [mode |-> "archive"]
KBadName == [name |-> NonString]
KModeBadName == [mode |-> "explore", name |-> NonString]

(***************************************************************************)
(* Calling, returning, raising, moving on                                  *)
(***************************************************************************)
ctl == <<pc, op, args, result, waited, hist>>

\* what is under project_path
ProjectTree ==
    [subdirs |-> subdirs, disk |-> disk, lockFile |-> lockFile, fmFiles |-> fmFiles,
     reviewDirs |-> reviewDirs, errorFile |-> errorFile, dataFiles |-> dataFiles,
     dataPickle |-> dataPickle]

\* a copy that takes the lock file along
CopiedWithLock(tree) ==
    [tree EXCEPT !.subdirs = @ \ {"tmp"}, !.dataPickle = NoFile]

\* shutil.copytree(..., ignore=shutil.ignore_patterns("tmp", "*.lock"))
Copied(tree) ==
    [tree EXCEPT !.subdirs = @ \ {"tmp"}, !.dataPickle = NoFile, !.lockFile = FALSE]

\* shutil.make_archive(export_fp_tmp, "zip", root_dir=export_fp_tmp)
Archive(tree) == [archive |-> tree]

\* zipfile.ZipFile(asreview_file) opens it
IsArchive(f) == "archive" \in DOMAIN f

NoBundle == [dest |-> NoFile, tmp |-> NoFile, zip |-> NoFile]

RootIds == {Stem, "uuid1", "uuid2"}

Snapshot ==
    [bundle |-> bundle, root |-> root,
     dir |-> dirExists, subdirs |-> subdirs, disk |-> disk,
     lockFile |-> lockFile, fmFiles |-> fmFiles, reviewDirs |-> reviewDirs,
     errorFile |-> errorFile, dataFiles |-> dataFiles, dataPickle |-> dataPickle]

\* what the observer keeps of the call o(a) by p that ended with r; created is
\* the mode of the create that succeeded last, modeArgs the modes given to
\* update_config since, stored the matrix that add_feature_matrix was given
\* last for each method since the last delete_review
Ended(p, o, a, r, pre) ==
    [proc |-> p, op |-> o, args |-> a, result |-> r, pre |-> pre,
     created |-> IF o = "create" /\ r = "ok" THEN a.mode ELSE hist.created,
     modeArgs |-> IF o = "create" /\ r = "ok" THEN {} ELSE hist.modeArgs,
     exported |-> IF o = "export" /\ r = "ok" THEN disk ELSE hist.exported,
     stored |-> IF o = "add_feature_matrix" /\ r = "ok"
                THEN {f \in hist.stored : f[1] # a.method} \cup
                       {<<a.method,
                          IF a.matrix.val = "X1" THEN "csr(X1)" ELSE "csr(X2)">>}
                ELSE IF o = "delete_review" \/ (o = "create" /\ r = "ok") THEN {}
                ELSE hist.stored]

\* a call that goes on at label l
Begin(p, o, a, l) ==
    /\ pc[p] = "idle"
    /\ pc' = [pc EXCEPT ![p] = l]
    /\ op' = [op EXCEPT ![p] = o]
    /\ args' = [args EXCEPT ![p] = a]
    /\ result' = [result EXCEPT ![p] = "none"]
    /\ touched' = [touched EXCEPT ![p] = FALSE]
    /\ hist' = [hist EXCEPT
                  !.pre = Snapshot,
                  !.modeArgs = IF o = "update_config" /\ "mode" \in DOMAIN a
                               THEN @ \cup {a.mode} ELSE @]
    /\ UNCHANGED waited

\* a call that ends in its first step
Immediate(p, o, a, r) ==
    /\ pc[p] = "idle"
    /\ result' = [result EXCEPT ![p] = r]
    /\ touched' = [touched EXCEPT ![p] = FALSE]
    /\ hist' = Ended(p, o, a, r, Snapshot)
    /\ UNCHANGED <<pc, op, args, waited>>

Return(p, r) ==
    /\ pc' = [pc EXCEPT ![p] = "idle"]
    /\ op' = [op EXCEPT ![p] = "none"]
    /\ args' = [args EXCEPT ![p] = NoArgs]
    /\ result' = [result EXCEPT ![p] = r]
    /\ waited' = [waited EXCEPT ![p] = 0]
    /\ hist' = Ended(p, op[p], args[p], r, hist.pre)

\* an exception caught by the handler at label l
Raise(p, l, e) ==
    /\ pc' = [pc EXCEPT ![p] = l]
    /\ result' = [result EXCEPT ![p] = e]
    /\ waited' = [waited EXCEPT ![p] = 0]
    /\ UNCHANGED <<op, args, hist>>

Goto(p, l) ==
    /\ pc' = [pc EXCEPT ![p] = l]
    /\ waited' = [waited EXCEPT ![p] = 0]
    /\ UNCHANGED <<op, args, result, hist>>

\* between acquiring and releasing the lock
InCS(p) == pc[p] \in {"g_read", "s_open", "s_dump", "c_open", "c_dump"}

Release(p) == lockHeld' = lockHeld \ {p}

(***************************************************************************)
(* Project(path): a new handle has no _config                              *)
(***************************************************************************)
NewHandle(p) ==
    /\ cache[p] # NoConfig
    /\ cache' = [cache EXCEPT ![p] = NoConfig]
    /\ Immediate(p, "Project", NoArgs, "ok")
    /\ UNCHANGED fsvars

(***************************************************************************)
(* FileLock(project_fp_lock, timeout=3), entered by "with lock:"           *)
(***************************************************************************)
LockPcs == {"c_lock", "g_lock", "s_lock"}

Locked(l) ==
    CASE l = "c_lock" -> "c_open"
      [] l = "g_lock" -> "g_read"
      [] l = "s_lock" -> "s_open"

\* Project.create catches what the lock raises; the property and its setter do not
LockFail(p, e) ==
    IF pc[p] = "c_lock" THEN Raise(p, "c_rollback", e) ELSE Return(p, e)

LockAcquire(p) ==
    /\ pc[p] \in LockPcs
    /\ dirExists
    /\ lockHeld = {}
    /\ lockHeld' = {p}
    /\ lockFile' = TRUE
    /\ Goto(p, Locked(pc[p]))
    /\ UNCHANGED <<dirExists, subdirs, disk, fdLive, fmFiles, xfs, cache, touched>>

\* the lock is taken: poll again, a second later
LockPoll(p) ==
    /\ pc[p] \in LockPcs
    /\ dirExists
    /\ lockHeld # {}
    /\ waited[p] < LOCK_TIMEOUT
    /\ waited' = [waited EXCEPT ![p] = @ + 1]
    /\ UNCHANGED <<fsvars, pc, op, args, result, hist, cache, touched>>

LockTimeout(p) ==
    /\ pc[p] \in LockPcs
    /\ dirExists
    /\ lockHeld # {}
    /\ waited[p] = LOCK_TIMEOUT
    /\ LockFail(p, "Timeout")
    /\ UNCHANGED <<fsvars, cache, touched>>

\* the lock file cannot be opened in a directory that is gone
LockNoDir(p) ==
    /\ pc[p] \in LockPcs
    /\ ~dirExists
    /\ LockFail(p, "FileNotFoundError")
    /\ UNCHANGED <<fsvars, cache, touched>>

(***************************************************************************)
(* Project.create                                                          *)
(***************************************************************************)
CreateArgs(m, n) == [mode |-> m, name |-> IF n = NULL THEN Stem ELSE n]

\* a create that does not look for project.json
CreateCheckProjectSkipped(p, m, n) ==
    /\ IF m \notin PROJECT_MODES
       THEN Immediate(p, "create", CreateArgs(m, n), "ValueError")
       ELSE Begin(p, "create", CreateArgs(m, n), "c_isdir")
    /\ UNCHANGED <<fsvars, cache>>

\* is_project(project_path), then the mode
CreateCheckProject(p, m, n) ==
    /\ IF is_project THEN Immediate(p, "create", CreateArgs(m, n), "ProjectExistsError")
       ELSE IF m \notin PROJECT_MODES
            THEN Immediate(p, "create", CreateArgs(m, n), "ValueError")
       ELSE Begin(p, "create", CreateArgs(m, n), "c_isdir")
    /\ UNCHANGED <<fsvars, cache>>

\* project_path.is_dir()
CreateCheckDir(p) ==
    /\ pc[p] = "c_isdir"
    /\ IF dirExists THEN Return(p, "IsADirectoryError") ELSE Goto(p, "c_mkdir")
    /\ UNCHANGED <<fsvars, cache, touched>>

\* project_path.mkdir(parents=True, exist_ok=True)
CreateMkdir(p) ==
    /\ pc[p] = "c_mkdir"
    /\ dirExists' = TRUE
    /\ Goto(p, "c_subdirs")
    /\ UNCHANGED <<subdirs, disk, lockFile, lockHeld, fdLive, fmFiles, xfs, cache, touched>>

\* project_path.mkdir raises (the path is a file, or cannot be written)
CreateMkdirFails(p) ==
    /\ pc[p] = "c_mkdir"
    /\ Raise(p, "c_rollback", "OSError")
    /\ UNCHANGED <<fsvars, cache, touched>>

\* the three mkdir calls, the config dict and its validation
CreateSubdirs(p) ==
    /\ pc[p] = "c_subdirs"
    /\ IF ~dirExists
       THEN Raise(p, "c_rollback", "FileNotFoundError") /\ UNCHANGED subdirs
       ELSE /\ subdirs' = ProjectDirs
            /\ IF SchemaValid(InitialConfig(args[p]))
               THEN Goto(p, "c_lock")
               ELSE Raise(p, "c_rollback", "ValidationError")
    /\ UNCHANGED <<dirExists, disk, lockFile, lockHeld, fdLive, fmFiles, xfs, cache, touched>>

\* open(project_fp, "w")
CreateOpen(p) ==
    /\ pc[p] = "c_open"
    /\ IF ~dirExists
       THEN /\ Release(p)
            /\ Raise(p, "c_rollback", "FileNotFoundError")
            /\ UNCHANGED <<disk, fdLive, touched>>
       ELSE /\ disk' = Torn
            /\ fdLive' = fdLive \cup {p}
            /\ touched' = [touched EXCEPT ![p] = TRUE]
            /\ Goto(p, "c_dump")
            /\ UNCHANGED lockHeld
    /\ UNCHANGED <<dirExists, subdirs, lockFile, fmFiles, xfs, cache>>

\* what json.dump leaves in the file at project.json: nothing of it when the
\* descriptor is of an unlinked file, and possibly garbage when another
\* descriptor writes the same file
Dumped(p, config) ==
    IF p \notin fdLive THEN {disk}
    ELSE IF fdLive \ {p} # {} THEN {config, Torn}
    ELSE {config}

\* json.dump(config, f); return cls(project_path)
CreateDump(p) ==
    /\ pc[p] = "c_dump"
    /\ \E d \in Dumped(p, InitialConfig(args[p])) : disk' = d
    /\ fdLive' = fdLive \ {p}
    /\ Release(p)
    /\ Return(p, "ok")
    /\ UNCHANGED <<dirExists, subdirs, lockFile, fmFiles, xfs, cache, touched>>

\* json.dump or the close raises (a value that does not serialise, a full disk)
CreateDumpFails(p) ==
    /\ pc[p] = "c_dump"
    /\ fdLive' = fdLive \ {p}
    /\ Release(p)
    /\ Raise(p, "c_rollback", "WriteError")
    /\ UNCHANGED <<dirExists, subdirs, disk, lockFile, fmFiles, xfs, cache, touched>>

\* a handler that re-raises and leaves the tree
CreateRollbackKeepsTree(p) ==
    /\ pc[p] = "c_rollback"
    /\ Return(p, result[p])
    /\ UNCHANGED <<fsvars, touched, cache>>

\* except Exception as err: shutil.rmtree(project_path); raise err
CreateRollback(p) ==
    /\ pc[p] = "c_rollback"
    /\ IF dirExists
       THEN /\ dirExists' = FALSE
            /\ subdirs' = {}
            /\ disk' = NoFile
            /\ lockFile' = FALSE
            /\ lockHeld' = {}
            /\ fdLive' = {}
            /\ fmFiles' = {}
            /\ reviewDirs' = {}
            /\ errorFile' = NoFile
            /\ dataFiles' = {}
            /\ dataPickle' = NoFile
            /\ UNCHANGED bvars
            /\ touched' = [touched EXCEPT ![p] = @ \/ disk # NoFile]
            /\ Return(p, result[p])
       ELSE /\ Return(p, "RmtreeError")
            /\ UNCHANGED <<fsvars, touched>>
    /\ UNCHANGED cache

(***************************************************************************)
(* Project.config: the property                                            *)
(***************************************************************************)
\* where a method's self.config leads: the cached dict, or the file
AfterConfig(p) == IF cache[p] # NoConfig THEN "apply" ELSE "get"

\* project_fp.exists()
GetExists(p) ==
    /\ pc[p] = "get"
    /\ IF disk = NoFile THEN Return(p, "ProjectNotFoundError") ELSE Goto(p, "g_lock")
    /\ UNCHANGED <<fsvars, cache, touched>>

\* open(project_fp); json.load; self._config = config
GetRead(p) ==
    /\ pc[p] = "g_read"
    /\ Release(p)
    /\ IF disk = NoFile THEN Return(p, "FileNotFoundError") /\ UNCHANGED cache
       ELSE IF disk = Torn THEN Return(p, "JSONDecodeError") /\ UNCHANGED cache
       ELSE cache' = [cache EXCEPT ![p] = disk] /\ Goto(p, "apply")
    /\ UNCHANGED <<dirExists, subdirs, disk, lockFile, fdLive, fmFiles, xfs, touched>>

(***************************************************************************)
(* Project.config: the setter                                              *)
(***************************************************************************)
SetOpen(p) ==
    /\ pc[p] = "s_open"
    /\ IF ~dirExists
       THEN /\ Release(p)
            /\ Return(p, "FileNotFoundError")
            /\ UNCHANGED <<disk, fdLive, touched>>
       ELSE /\ disk' = Torn
            /\ fdLive' = fdLive \cup {p}
            /\ touched' = [touched EXCEPT ![p] = TRUE]
            /\ Goto(p, "s_dump")
            /\ UNCHANGED lockHeld
    /\ UNCHANGED <<dirExists, subdirs, lockFile, fmFiles, xfs, cache>>

SetDump(p) ==
    /\ pc[p] = "s_dump"
    /\ \E d \in Dumped(p, cache[p]) : disk' = d
    /\ fdLive' = fdLive \ {p}
    /\ Release(p)
    /\ Return(p, "ok")
    /\ UNCHANGED <<dirExists, subdirs, lockFile, fmFiles, xfs, cache, touched>>

(***************************************************************************)
(* Project.update_config                                                   *)
(***************************************************************************)
\* an update_config that takes any mode
UpdateConfigStartAnyMode(p, kwargs) ==
    /\ Begin(p, "update_config", kwargs, AfterConfig(p))
    /\ UNCHANGED <<fsvars, cache>>

UpdateConfigStart(p, kwargs) ==
    /\ IF "mode" \in DOMAIN kwargs /\ kwargs["mode"] \notin PROJECT_MODES
       THEN Immediate(p, "update_config", kwargs, "ValueError")
       ELSE Begin(p, "update_config", kwargs, AfterConfig(p))
    /\ UNCHANGED <<fsvars, cache>>

\* an update_config that stores the merged document and validates it afterwards
UpdateConfigStoresFirst(p) ==
    /\ pc[p] = "apply"
    /\ op[p] = "update_config"
    /\ LET config == Merge(cache[p], args[p])
       IN  /\ cache' = [cache EXCEPT ![p] = config]
           /\ IF SchemaValid(config)
              THEN Goto(p, "s_lock") /\ UNCHANGED <<disk, touched>>
              ELSE /\ disk' = config
                   /\ touched' = [touched EXCEPT ![p] = TRUE]
                   /\ Return(p, "ValidationError")
    /\ UNCHANGED <<dirExists, subdirs, lockFile, lockHeld, fdLive, fmFiles, xfs>>

\* config.update(kwargs_copy); jsonschema.validate; self.config = config
UpdateConfigMerge(p) ==
    /\ pc[p] = "apply"
    /\ op[p] = "update_config"
    /\ LET config == Merge(cache[p], args[p])
       IN  /\ cache' = [cache EXCEPT ![p] = config]
           /\ IF SchemaValid(config) THEN Goto(p, "s_lock")
              ELSE Return(p, "ValidationError")
    /\ UNCHANGED <<fsvars, touched>>

(***************************************************************************)
(* A method run in one step, by a caller that no other call interleaves    *)
(* with: what self.config yields, and what the setter stores               *)
(***************************************************************************)
CanRead(p) == cache[p] # NoConfig \/ IsDoc(disk)

ReadError == IF disk = NoFile THEN "ProjectNotFoundError" ELSE "JSONDecodeError"

\* self.config
Config(p) == IF cache[p] # NoConfig THEN cache[p] ELSE disk

\* how update_config(**kwargs) ends
UpdateConfigResult(p, kwargs) ==
    IF "mode" \in DOMAIN kwargs /\ kwargs["mode"] \notin PROJECT_MODES THEN "ValueError"
    ELSE IF ~CanRead(p) THEN ReadError
    ELSE IF ~SchemaValid(Merge(Config(p), kwargs)) THEN "ValidationError"
    ELSE IF ~dirExists THEN "FileNotFoundError"
    ELSE "ok"

\* self._config after update_config(**kwargs): the merged dict, valid or not
UpdateConfigCache(p, kwargs) ==
    IF UpdateConfigResult(p, kwargs) \in {"ValueError", "ProjectNotFoundError",
                                          "JSONDecodeError"}
    THEN cache[p]
    ELSE Merge(Config(p), kwargs)

\* project.json after update_config(**kwargs)
UpdateConfigDisk(p, kwargs) ==
    IF UpdateConfigResult(p, kwargs) = "ok" THEN Merge(Config(p), kwargs) ELSE disk

\* how a method that changes self.config into config and stores it ends
StoreResult(p) ==
    IF ~CanRead(p) THEN ReadError
    ELSE IF ~dirExists THEN "FileNotFoundError"
    ELSE "ok"

(***************************************************************************)
(* Project.add_feature_matrix, Project.get_feature_matrix                  *)
(***************************************************************************)
MatrixFilename(m) == <<m, "_feature_matrix.npz">>

Matrices(d) ==
    IF IsDoc(d) /\ "feature_matrices" \in DOMAIN d THEN d["feature_matrices"] ELSE <<>>

\* csr_matrix(feature_matrix): the sparse matrix equal to the dense one
csr_matrix(x) == IF x.val = "X1" THEN "csr(X1)" ELSE "csr(X2)"

\* a save_npz that leaves a file that is already there
SavedKeepsFirst(files, m, x) ==
    IF \E f \in files : f[1] = m THEN files ELSE files \cup {<<m, x>>}

\* the files after save_npz(path of m, x)
Saved(files, m, x) == {f \in files : f[1] # m} \cup {<<m, x>>}

\* the type check and save_npz, then self.config
AddFeatureMatrixStart(p, m, x) ==
    /\ Len(Matrices(disk)) < MaxMatrices
    /\ Len(Matrices(cache[p])) < MaxMatrices
    /\ LET a == [method |-> m, matrix |-> x]
       IN  IF x.type \notin {"ndarray", "csr_matrix"}
           THEN Immediate(p, "add_feature_matrix", a, "ValueError")
                /\ UNCHANGED fmFiles
           ELSE IF PATH_FEATURE_MATRICES \notin subdirs
           THEN Immediate(p, "add_feature_matrix", a, "FileNotFoundError")
                /\ UNCHANGED fmFiles
           ELSE /\ fmFiles' = Saved(fmFiles, m, csr_matrix(x))
                /\ Begin(p, "add_feature_matrix", a, AfterConfig(p))
    /\ UNCHANGED <<dirExists, subdirs, disk, lockFile, lockHeld, fdLive, xfs, cache>>

AddFeatureMatrixAppend(p) ==
    /\ pc[p] = "apply"
    /\ op[p] = "add_feature_matrix"
    /\ LET m == args[p].method
           entry == [id |-> m, filename |-> MatrixFilename(m)]
       IN  cache' = [cache EXCEPT ![p] =
                Merge(@, [feature_matrices |-> Append(Matrices(@), entry)])]
    /\ Goto(p, "s_lock")
    /\ UNCHANGED <<fsvars, touched>>

\* what load_npz(path of m) yields
LoadNpz(m) ==
    IF \E f \in fmFiles : f[1] = m
    THEN (CHOOSE f \in fmFiles : f[1] = m)[2]
    ELSE "FileNotFoundError"

GetFeatureMatrix(p, m) ==
    /\ Immediate(p, "get_feature_matrix", [method |-> m], LoadNpz(m))
    /\ UNCHANGED <<fsvars, cache>>

(***************************************************************************)
(* Project.delete_review                                                   *)
(***************************************************************************)
KNoReviews == [reviews |-> <<>>, feature_matrices |-> <<>>]

\* the directory d after rmtree and, unless remove_folders, mkdir; nothing of it
\* happens when rmtree raises for a directory that is not there
Emptied(d, remove_folders) ==
    IF d \in subdirs /\ remove_folders THEN {d} ELSE {}

\* a delete_review that lets the exception of rmtree out
DeleteReviewResultRaises(p) ==
    IF {PATH_FEATURE_MATRICES, "reviews"} \subseteq subdirs
    THEN UpdateConfigResult(p, KNoReviews)
    ELSE "FileNotFoundError"

\* how delete_review ends: both rmtree calls sit in try/except Exception, so
\* it ends as its update_config does
DeleteReviewResult(p) == UpdateConfigResult(p, KNoReviews)

DeleteReview(p, remove_folders) ==
    /\ subdirs' = (subdirs \ Emptied(PATH_FEATURE_MATRICES, remove_folders))
                     \ Emptied("reviews", remove_folders)
    /\ fmFiles' = {}
    /\ reviewDirs' = {}
    /\ cache' = [cache EXCEPT ![p] = UpdateConfigCache(p, KNoReviews)]
    /\ disk' = UpdateConfigDisk(p, KNoReviews)
    /\ lockFile' = (lockFile \/ (CanRead(p) /\ dirExists))
    /\ Immediate(p, "delete_review", [remove_folders |-> remove_folders],
                 DeleteReviewResult(p))
    /\ UNCHANGED <<dirExists, lockHeld, fdLive, errorFile, dataFiles, dataPickle, bvars>>

(***************************************************************************)
(* Reviews: add_review, update_review, mark_review_finished, set_error,    *)
(* remove_error                                                            *)
(***************************************************************************)
\* Project.reviews
Reviews(d) == IF IsDoc(d) /\ "reviews" \in DOMAIN d THEN d["reviews"] ELSE <<>>

\* self.config = config: the dict is cached and, if the directory is there, stored
Store(p, config) ==
    /\ cache' = [cache EXCEPT ![p] = config]
    /\ disk' = IF dirExists THEN config ELSE disk
    /\ lockFile' = (lockFile \/ dirExists)

\* self.config read, nothing stored
Load(p) ==
    /\ cache' = [cache EXCEPT ![p] = IF CanRead(p) THEN Config(p) ELSE @]
    /\ UNCHANGED <<disk, lockFile>>

\* SQLiteState()._create_new_state_file(project_path, review_id)
CreateStateFile(p, id) ==
    /\ "reviews" \in subdirs
    /\ reviewDirs' = reviewDirs \cup {id}
    /\ Immediate(p, "_create_new_state_file", [review_id |-> id], "ok")
    /\ UNCHANGED <<dirExists, subdirs, disk, lockFile, lockHeld, fdLive, fmFiles,
                   errorFile, dataFiles, dataPickle, bvars, cache>>

AddReviewResult(p, id) ==
    IF ~CanRead(p) THEN ReadError
    ELSE IF id \notin reviewDirs THEN "FileNotFoundError"
    ELSE StoreResult(p)

\* self.config, settings_metadata.json, append, self.config = config
AddReviewFx(p, id, status) ==
    IF AddReviewResult(p, id) \in {"ok", "FileNotFoundError"} /\ id \in reviewDirs
    THEN Store(p, Merge(Config(p),
                 [reviews |-> Append(Reviews(Config(p)),
                     [id |-> id, start_time |-> Now, status |-> status])]))
    ELSE Load(p)

AddReview(p, id) ==
    /\ Len(Reviews(disk)) < MaxReviews
    /\ Len(Reviews(cache[p])) < MaxReviews
    /\ AddReviewFx(p, id, "setup")
    /\ Immediate(p, "add_review", [review_id |-> id], AddReviewResult(p, id))
    /\ UNCHANGED <<dirExists, subdirs, lockHeld, fdLive, fmFiles, xfs>>

\* review_index: 0 when the id, or a first review, is not there
ReviewIndex(reviews, id) ==
    IF id = NULL THEN (IF Len(reviews) >= 1 THEN 1 ELSE 0)
    ELSE IF \E i \in 1..Len(reviews) : reviews[i]["id"] = id
         THEN CHOOSE i \in 1..Len(reviews) :
                  /\ reviews[i]["id"] = id
                  /\ \A j \in 1..(i - 1) : reviews[j]["id"] # id
         ELSE 0

UpdateReviewResult(p, id) ==
    IF ~CanRead(p) THEN ReadError
    ELSE IF ReviewIndex(Reviews(Config(p)), id) = 0
         THEN (IF id = NULL THEN "IndexError" ELSE "ValueError")
    ELSE StoreResult(p)

\* an update_review that leaves a finished review as it is
UpdateReviewFxKeepsFinished(p, id, kwargs) ==
    LET reviews == Reviews(Config(p))
        i == ReviewIndex(reviews, id)
    IN  IF CanRead(p) /\ i # 0
        THEN Store(p, Merge(Config(p),
                 [reviews |-> [reviews EXCEPT ![i] =
                     IF @["status"] = "finished" THEN @ ELSE Merge(@, kwargs)]]))
        ELSE Load(p)

\* self.config, review_config.update(kwargs), self.config = config
UpdateReviewFx(p, id, kwargs) ==
    LET reviews == Reviews(Config(p))
        i == ReviewIndex(reviews, id)
    IN  IF CanRead(p) /\ i # 0
        THEN Store(p, Merge(Config(p),
                 [reviews |-> [reviews EXCEPT ![i] = Merge(@, kwargs)]]))
        ELSE Load(p)

UpdateReview(p, id, kwargs) ==
    /\ UpdateReviewFx(p, id, kwargs)
    /\ Immediate(p, "update_review", [review_id |-> id, kwargs |-> kwargs],
                 UpdateReviewResult(p, id))
    /\ UNCHANGED <<dirExists, subdirs, lockHeld, fdLive, fmFiles, xfs>>

KFinished == [status |-> "finished", end_time |-> Now]

\* a mark_review_finished that clears the error
MarkReviewFinishedClearsError(p, id) ==
    /\ UpdateReviewFx(p, id, KFinished)
    /\ errorFile' = NoFile
    /\ Immediate(p, "mark_review_finished", [review_id |-> id],
                 UpdateReviewResult(p, id))
    /\ UNCHANGED <<dirExists, subdirs, lockHeld, fdLive, fmFiles, reviewDirs,
                   dataFiles, dataPickle, bvars>>

MarkReviewFinished(p, id) ==
    /\ UpdateReviewFx(p, id, KFinished)
    /\ Immediate(p, "mark_review_finished", [review_id |-> id],
                 UpdateReviewResult(p, id))
    /\ UNCHANGED <<dirExists, subdirs, lockHeld, fdLive, fmFiles, xfs>>

\* the dict that set_error dumps into error.json
ErrorMessage(err) ==
    [message |-> <<err.type, ": ", err.str>>, type |-> err.type, datetime |-> Now]

SetErrorResult(p) ==
    IF UpdateReviewResult(p, NULL) # "ok" THEN UpdateReviewResult(p, NULL)
    ELSE "ok"

\* a set_error that writes error.json and leaves the status
SetErrorFxFileOnly(p, err) ==
    /\ Load(p)
    /\ errorFile' = IF SetErrorResult(p) = "ok" THEN ErrorMessage(err) ELSE errorFile

\* update_review(status="error"), then error.json
SetErrorFx(p, err) ==
    /\ UpdateReviewFx(p, NULL, [status |-> "error"])
    /\ errorFile' = IF SetErrorResult(p) = "ok" THEN ErrorMessage(err) ELSE errorFile

SetError(p, err) ==
    /\ SetErrorFx(p, err)
    /\ Immediate(p, "set_error", [err |-> err], SetErrorResult(p))
    /\ UNCHANGED <<dirExists, subdirs, lockHeld, fdLive, fmFiles, reviewDirs,
                   dataFiles, dataPickle, bvars>>

\* a remove_error that only resets the status
RemoveErrorKeepsFile(p, status) ==
    /\ UpdateReviewFx(p, NULL, [status |-> status])
    /\ Immediate(p, "remove_error", [status |-> status], UpdateReviewResult(p, NULL))
    /\ UNCHANGED <<dirExists, subdirs, lockHeld, fdLive, fmFiles, xfs>>

\* os.remove(error.json) if it is there, then update_review(status=status)
RemoveError(p, status) ==
    /\ errorFile' = NoFile
    /\ UpdateReviewFx(p, NULL, [status |-> status])
    /\ Immediate(p, "remove_error", [status |-> status], UpdateReviewResult(p, NULL))
    /\ UNCHANGED <<dirExists, subdirs, lockHeld, fdLive, fmFiles, reviewDirs,
                   dataFiles, dataPickle, bvars>>

(***************************************************************************)
(* cli_simulate: the simulate command, from Project.create to the export   *)
(***************************************************************************)
DataNames == {"full.csv", "partial.csv", "none.csv"}

ErrOf(t) == CHOOSE e \in Errors : e.type = t

\* Path(args.state_file).exists(), then
\* project = Project.create(fp_tmp_simulation, project_mode="simulate", ...)
SimCreate(p, f, id) ==
    /\ LET a == [dataset |-> f, review_id |-> id]
       IN  IF bundle.dest # NoFile \/ is_project
           THEN Immediate(p, "cli_simulate", a, "ProjectExistsError")
                              /\ UNCHANGED <<fsvars, cache>>
           ELSE IF dirExists THEN Immediate(p, "cli_simulate", a, "IsADirectoryError")
                                  /\ UNCHANGED <<fsvars, cache>>
           ELSE /\ Begin(p, "cli_simulate", a, "sim_data")
                /\ dirExists' = TRUE
                /\ subdirs' = ProjectDirs
                /\ disk' = InitialConfig(CreateArgs("simulate", NULL))
                /\ lockFile' = TRUE
                /\ cache' = [cache EXCEPT ![p] = NoConfig]
                /\ UNCHANGED <<lockHeld, fdLive, fmFiles, xfs>>

\* as_data.to_file(Path(fp_tmp_simulation, "data", filename))
SimData(p) ==
    /\ pc[p] = "sim_data"
    /\ dataFiles' = dataFiles \cup {args[p].dataset}
    /\ Goto(p, "sim_config")
    /\ UNCHANGED <<dirExists, subdirs, disk, lockFile, lockHeld, fdLive, fmFiles,
                   reviewDirs, errorFile, dataPickle, bvars, cache, touched>>

\* project.update_config(dataset_path=filename)
SimConfig(p) ==
    /\ pc[p] = "sim_config"
    /\ LET kwargs == [dataset_path |-> args[p].dataset]
       IN  /\ cache' = [cache EXCEPT ![p] = UpdateConfigCache(p, kwargs)]
           /\ disk' = UpdateConfigDisk(p, kwargs)
           /\ IF UpdateConfigResult(p, kwargs) = "ok" THEN Goto(p, "sim_state")
              ELSE Return(p, UpdateConfigResult(p, kwargs))
    /\ UNCHANGED <<dirExists, subdirs, lockFile, lockHeld, fdLive, fmFiles, xfs,
                   touched>>

\* SQLiteState()._create_new_state_file(project.project_path, review_id)
SimState(p) ==
    /\ pc[p] = "sim_state"
    /\ reviewDirs' = reviewDirs \cup {args[p].review_id}
    /\ Goto(p, "sim_add")
    /\ UNCHANGED <<dirExists, subdirs, disk, lockFile, lockHeld, fdLive, fmFiles,
                   errorFile, dataFiles, dataPickle, bvars, cache, touched>>

\* project.add_review(review_id)
SimAdd(p) ==
    /\ pc[p] = "sim_add"
    /\ AddReviewFx(p, args[p].review_id, "setup")
    /\ IF AddReviewResult(p, args[p].review_id) = "ok" THEN Goto(p, "sim_try")
       ELSE Return(p, AddReviewResult(p, args[p].review_id))
    /\ UNCHANGED <<dirExists, subdirs, lockHeld, fdLive, fmFiles, xfs, touched>>

\* try: project.update_review(status="review")
SimTry(p) ==
    /\ pc[p] = "sim_try"
    /\ UpdateReviewFx(p, NULL, [status |-> "review"])
    /\ IF UpdateReviewResult(p, NULL) = "ok" THEN Goto(p, "sim_review")
       ELSE Raise(p, "sim_except", UpdateReviewResult(p, NULL))
    /\ UNCHANGED <<dirExists, subdirs, lockHeld, fdLive, fmFiles, xfs, touched>>

\* reviewer.review() runs to its end
SimReview(p) ==
    /\ pc[p] = "sim_review"
    /\ Goto(p, "sim_finish")
    /\ UNCHANGED <<fsvars, cache, touched>>

\* open_state, get_priors or reviewer.review() raises err
SimReviewRaises(p, err) ==
    /\ pc[p] = "sim_review"
    /\ Raise(p, "sim_except", err.type)
    /\ UNCHANGED <<fsvars, cache, touched>>

\* except Exception as err: project.set_error(err); raise err
SimExcept(p) ==
    /\ pc[p] = "sim_except"
    /\ SetErrorFx(p, ErrOf(result[p]))
    /\ Return(p, IF SetErrorResult(p) = "ok" THEN result[p] ELSE SetErrorResult(p))
    /\ UNCHANGED <<dirExists, subdirs, lockHeld, fdLive, fmFiles, reviewDirs,
                   dataFiles, dataPickle, bvars, touched>>

\* project.mark_review_finished()
SimFinish(p) ==
    /\ pc[p] = "sim_finish"
    /\ UpdateReviewFx(p, NULL, KFinished)
    /\ IF UpdateReviewResult(p, NULL) = "ok" THEN Goto(p, "sim_export")
       ELSE Return(p, UpdateReviewResult(p, NULL))
    /\ UNCHANGED <<dirExists, subdirs, lockHeld, fdLive, fmFiles, xfs, touched>>

\* project.export(args.state_file); shutil.rmtree(fp_tmp_simulation)
SimExport(p) ==
    /\ pc[p] = "sim_export"
    /\ dirExists' = FALSE
    /\ subdirs' = {}
    /\ disk' = NoFile
    /\ lockFile' = FALSE
    /\ fmFiles' = {}
    /\ reviewDirs' = {}
    /\ errorFile' = NoFile
    /\ dataFiles' = {}
    /\ dataPickle' = NoFile
    /\ bundle' = [bundle EXCEPT !.dest = Archive(Copied(ProjectTree))]
    /\ Return(p, "ok")
    /\ UNCHANGED <<lockHeld, fdLive, cache, touched, root>>

(***************************************************************************)
(* The dataset: add_dataset, read_data, remove_dataset, clean_tmp_files    *)
(***************************************************************************)
\* as_data.labels of the dataset in the file f
Labels(f) ==
    CASE f = "full.csv" -> "full"
      [] f = "partial.csv" -> "partial"
      [] OTHER -> "none"

\* load_dataset(fp_data): the dataset object parsed from the file f
load_dataset(f) ==
    CASE f = "full.csv" -> "ASReviewData(full.csv)"
      [] f = "partial.csv" -> "ASReviewData(partial.csv)"
      [] OTHER -> "ASReviewData(none.csv)"

\* file_name.rsplit(".", 1)[0]
NameOf(f) ==
    CASE f = "full.csv" -> "full"
      [] f = "partial.csv" -> "partial"
      [] OTHER -> "none"

\* a file is written into data/
PutDataFile(p, f) ==
    /\ "data" \in subdirs
    /\ f \notin dataFiles
    /\ dataFiles' = dataFiles \cup {f}
    /\ Immediate(p, "to_file", [file_name |-> f], "ok")
    /\ UNCHANGED <<dirExists, subdirs, disk, lockFile, lockHeld, fdLive, fmFiles,
                   reviewDirs, errorFile, dataPickle, bvars, cache>>

\* update_config(**kwargs) as one step
UpdateConfigCall(p, kwargs) ==
    /\ cache' = [cache EXCEPT ![p] = UpdateConfigCache(p, kwargs)]
    /\ disk' = UpdateConfigDisk(p, kwargs)
    /\ lockFile' = (lockFile \/ UpdateConfigResult(p, kwargs) = "ok")
    /\ Immediate(p, "update_config", kwargs, UpdateConfigResult(p, kwargs))
    /\ UNCHANGED <<dirExists, subdirs, lockHeld, fdLive, fmFiles, xfs>>

\* the two checks of add_dataset on self.config["mode"] and as_data.labels
LabelingError(config, f) ==
    \/ config["mode"] = "simulate" /\ Labels(f) # "full"
    \/ config["mode"] = "explore" /\ Labels(f) = "none"

KDataset(f) == [dataset_path |-> f, name |-> NameOf(f)]

\* how add_dataset(file_name) ends
AddDatasetResult(p, f) ==
    IF f \notin dataFiles THEN "FileNotFoundError"
    ELSE IF ~CanRead(p) THEN ReadError
    ELSE IF LabelingError(Config(p), f) THEN "ValueError"
    ELSE IF UpdateConfigResult(p, KDataset(f)) # "ok"
         THEN UpdateConfigResult(p, KDataset(f))
    ELSE IF "reviews" \notin subdirs THEN "FileNotFoundError"
    ELSE "ok"

\* load_dataset, the checks, update_config, then a review with a new uuid:
\* _create_new_state_file and add_review
AddDataset(p, f, id) ==
    /\ id \notin reviewDirs
    /\ Len(Reviews(disk)) < MaxReviews
    /\ Len(Reviews(cache[p])) < MaxReviews
    /\ LET r == AddDatasetResult(p, f)
           updated == Merge(Config(p), KDataset(f))
           added == Merge(updated,
                      [reviews |-> Append(Reviews(updated),
                          [id |-> id, start_time |-> Now, status |-> "setup"])])
       IN  /\ IF r = "ok"
              THEN /\ cache' = [cache EXCEPT ![p] = added]
                   /\ disk' = added
                   /\ lockFile' = TRUE
                   /\ reviewDirs' = reviewDirs \cup {id}
              ELSE IF r = "FileNotFoundError" /\ f \in dataFiles
              THEN /\ cache' = [cache EXCEPT ![p] = updated]
                   /\ disk' = updated
                   /\ lockFile' = TRUE
                   /\ UNCHANGED reviewDirs
              ELSE IF r = "ValueError"
              THEN /\ Load(p)
                   /\ UNCHANGED reviewDirs
              ELSE IF f \in dataFiles /\ CanRead(p)
              THEN /\ cache' = [cache EXCEPT ![p] = UpdateConfigCache(p, KDataset(f))]
                   /\ UNCHANGED <<disk, lockFile, reviewDirs>>
              ELSE UNCHANGED <<cache, disk, lockFile, reviewDirs>>
           /\ Immediate(p, "add_dataset", [file_name |-> f], r)
    /\ UNCHANGED <<dirExists, subdirs, lockHeld, fdLive, fmFiles, errorFile,
                   dataFiles, dataPickle, bvars>>

\* self.config["dataset_path"]; a missing key ends in the same except clause
\* as a path of None
DatasetPath(config) ==
    IF IsDoc(config) /\ "dataset_path" \in DOMAIN config THEN config["dataset_path"]
    ELSE NULL

\* _read_data_from_cache returns the pickled object
CacheHit == dataPickle \notin {NoFile, Corrupt} /\ dataPickle.version = VERSION

\* load_dataset(data/<dataset_path>) succeeds
CanLoad(p) == CanRead(p) /\ DatasetPath(Config(p)) \in dataFiles

\* what read_data(use_cache) returns or raises
ReadDataResult(p, use_cache) ==
    IF use_cache /\ CacheHit THEN dataPickle.data
    ELSE IF CanLoad(p) THEN load_dataset(DatasetPath(Config(p)))
    ELSE "FileNotFoundError"

ReadData(p, use_cache, save_cache) ==
    /\ IF use_cache /\ CacheHit
       THEN UNCHANGED <<dataPickle, bvars, subdirs, cache>>
       ELSE /\ UNCHANGED bvars
            /\ dataPickle' =
                  IF CanLoad(p) /\ save_cache
                  THEN [data |-> load_dataset(DatasetPath(Config(p))),
                        version |-> VERSION]
                  ELSE IF use_cache /\ dataPickle = Corrupt THEN NoFile
                  ELSE dataPickle
            /\ subdirs' = IF CanLoad(p) /\ save_cache THEN subdirs \cup {"tmp"}
                          ELSE subdirs
            /\ cache' = [cache EXCEPT ![p] = IF CanRead(p) THEN Config(p) ELSE @]
    /\ Immediate(p, "read_data", [use_cache |-> use_cache, save_cache |-> save_cache],
                 ReadDataResult(p, use_cache))
    /\ UNCHANGED <<dirExists, disk, lockFile, lockHeld, fdLive, fmFiles, reviewDirs,
                   errorFile, dataFiles>>

\* os.remove(<project>/tmp): tmp is a directory or is not there, the OSError
\* is printed
CleanTmpFiles(p) ==
    /\ Immediate(p, "clean_tmp_files", NoArgs, "ok")
    /\ UNCHANGED <<fsvars, cache>>

KNoDataset == [dataset_path |-> NULL]

\* how remove_dataset() ends
RemoveDatasetResult(p) ==
    IF UpdateConfigResult(p, KNoDataset) # "ok" THEN UpdateConfigResult(p, KNoDataset)
    ELSE IF "data" \notin subdirs THEN "FileNotFoundError"
    ELSE "ok"

\* update_config(dataset_path=None), rmtree(data), clean_tmp_files, and
\* delete_review() when reviews/ holds something
RemoveDataset(p) ==
    /\ LET r == RemoveDatasetResult(p)
           reset == Merge(Config(p), KNoDataset)
           deleting == r = "ok" /\ "reviews" \in subdirs /\ reviewDirs # {}
       IN  /\ cache' = [cache EXCEPT ![p] =
                          IF deleting THEN Merge(reset, KNoReviews)
                          ELSE UpdateConfigCache(p, KNoDataset)]
           /\ disk' = IF deleting THEN Merge(reset, KNoReviews)
                      ELSE UpdateConfigDisk(p, KNoDataset)
           /\ lockFile' = (lockFile \/ UpdateConfigResult(p, KNoDataset) = "ok")
           /\ subdirs' = IF r = "ok" THEN subdirs \ {"data"} ELSE subdirs
           /\ dataFiles' = IF r = "ok" THEN {} ELSE dataFiles
           /\ fmFiles' = IF deleting THEN {} ELSE fmFiles
           /\ reviewDirs' = IF deleting THEN {} ELSE reviewDirs
           /\ Immediate(p, "remove_dataset", NoArgs, r)
    /\ UNCHANGED <<dirExists, lockHeld, fdLive, errorFile, dataPickle, bvars>>

\* tmp/data.pickle is deleted from outside
DeleteCacheFile(p) ==
    /\ dataPickle # NoFile
    /\ dataPickle' = NoFile
    /\ UNCHANGED bvars
    /\ Immediate(p, "unlink", NoArgs, "ok")
    /\ UNCHANGED <<dirExists, subdirs, disk, lockFile, lockHeld, fdLive, fmFiles,
                   reviewDirs, errorFile, dataFiles, cache>>

\* the package is upgraded: the pickle on disk carries the version that wrote it
UpgradeRelease(p) ==
    /\ dataPickle \notin {NoFile, Corrupt}
    /\ dataPickle.version = VERSION
    /\ dataPickle' = [dataPickle EXCEPT !.version = OLD_VERSION]
    /\ UNCHANGED bvars
    /\ Immediate(p, "upgrade", NoArgs, "ok")
    /\ UNCHANGED <<dirExists, subdirs, disk, lockFile, lockHeld, fdLive, fmFiles,
                   reviewDirs, errorFile, dataFiles, cache>>

\* tmp/data.pickle is cut short, as by a write that was interrupted
TruncateCacheFile(p) ==
    /\ dataPickle \notin {NoFile, Corrupt}
    /\ dataPickle' = Corrupt
    /\ UNCHANGED bvars
    /\ Immediate(p, "truncate", NoArgs, "ok")
    /\ UNCHANGED <<dirExists, subdirs, disk, lockFile, lockHeld, fdLive, fmFiles,
                   reviewDirs, errorFile, dataFiles, cache>>

(***************************************************************************)
(* read_data step by step: the cache file is read, removed and written     *)
(* with no lock                                                            *)
(***************************************************************************)
\* tmp/data.pickle while the processes in w have it open for writing
Writing(w) == [kind |-> "writing", writers |-> w]

IsWriting(f) == "writers" \in DOMAIN f

\* a pickle that pickle.load returns
IsPickle(f) == "kind" \notin DOMAIN f

ReadDataStart(p, use_cache, save_cache) ==
    /\ Begin(p, "read_data", [use_cache |-> use_cache, save_cache |-> save_cache],
             IF use_cache THEN "rd_cache" ELSE "rd_load")
    /\ UNCHANGED <<fsvars, cache>>

\* _read_data_from_cache: open, pickle.load, the checks
RdCache(p) ==
    /\ pc[p] = "rd_cache"
    /\ IF dataPickle = NoFile THEN Goto(p, "rd_load")
       ELSE IF ~IsPickle(dataPickle) THEN Goto(p, "rd_remove")
       ELSE IF dataPickle.version = VERSION THEN Return(p, dataPickle.data)
       ELSE Goto(p, "rd_load")
    /\ UNCHANGED <<fsvars, cache, touched>>

\* except Exception: os.remove(fp_data_pickle), FileNotFoundError passed over
RdRemove(p) ==
    /\ pc[p] = "rd_remove"
    /\ dataPickle' = NoFile
    /\ UNCHANGED bvars
    /\ Goto(p, "rd_load")
    /\ UNCHANGED <<dirExists, subdirs, disk, lockFile, lockHeld, fdLive, fmFiles,
                   reviewDirs, errorFile, dataFiles, cache, touched>>

\* os.remove of a file that another process has open: where the platform
\* refuses it (Windows), PermissionError leaves the except clause
RdRemoveDenied(p) ==
    /\ pc[p] = "rd_remove"
    /\ IsWriting(dataPickle)
    /\ dataPickle.writers \ {p} # {}
    /\ Return(p, "PermissionError")
    /\ UNCHANGED <<fsvars, cache, touched>>

\* load_dataset(data/<dataset_path>), any exception turned into FileNotFoundError
RdLoad(p) ==
    /\ pc[p] = "rd_load"
    /\ cache' = [cache EXCEPT ![p] = IF CanRead(p) THEN Config(p) ELSE @]
    /\ IF ~CanLoad(p) THEN Return(p, "FileNotFoundError")
       ELSE IF args[p].save_cache
       THEN Raise(p, "rd_open", load_dataset(DatasetPath(Config(p))))
       ELSE Return(p, load_dataset(DatasetPath(Config(p))))
    /\ UNCHANGED <<fsvars, touched>>

\* Path(tmp).mkdir(exist_ok=True); open(fp_data_pickle, "wb")
RdOpen(p) ==
    /\ pc[p] = "rd_open"
    /\ subdirs' = subdirs \cup {"tmp"}
    /\ dataPickle' = Writing((IF IsWriting(dataPickle) THEN dataPickle.writers
                              ELSE {}) \cup {p})
    /\ UNCHANGED bvars
    /\ Goto(p, "rd_dump")
    /\ UNCHANGED <<dirExists, disk, lockFile, lockHeld, fdLive, fmFiles,
                   reviewDirs, errorFile, dataFiles, cache, touched>>

\* the file after pickle.dump((as_data, __version__), f_pickle) and close by
\* p; a file that was removed or replaced meanwhile is not the one p writes
PickleDumped(f, p, data) ==
    IF IsWriting(f) /\ p \in f.writers
    THEN IF f.writers = {p} THEN [data |-> data, version |-> VERSION]
         ELSE Writing(f.writers \ {p})
    ELSE f

RdDump(p) ==
    /\ pc[p] = "rd_dump"
    /\ dataPickle' = PickleDumped(dataPickle, p, result[p])
    /\ UNCHANGED bvars
    /\ Return(p, result[p])
    /\ UNCHANGED <<dirExists, subdirs, disk, lockFile, lockHeld, fdLive, fmFiles,
                   reviewDirs, errorFile, dataFiles, cache, touched>>

(***************************************************************************)
(* export and load                                                         *)
(***************************************************************************)
ProjectPath == "projects/demo"

ExportPaths == {"out.asreview", "out.zip", ProjectPath}

\* Path(export_fp).suffix
Suffix(path) ==
    CASE path = "out.asreview" -> ".asreview"
      [] path = "out.zip" -> ".zip"
      [] OTHER -> ""

\* the two checks of export
ExportStart(p, export_fp) ==
    /\ IF Suffix(export_fp) # ".asreview"
       THEN Immediate(p, "export", [export_fp |-> export_fp], "ValueError")
       ELSE IF export_fp = ProjectPath
       THEN Immediate(p, "export", [export_fp |-> export_fp], "ValueError")
       ELSE Begin(p, "export", [export_fp |-> export_fp], "ex_copy")
    /\ UNCHANGED <<fsvars, cache>>

\* shutil.copytree(self.project_path, export_fp_tmp, ignore=...)
ExCopy(p) ==
    /\ pc[p] = "ex_copy"
    /\ IF ~dirExists
       THEN Return(p, "FileNotFoundError") /\ UNCHANGED bundle
       ELSE IF bundle.tmp # NoFile
       THEN Return(p, "FileExistsError") /\ UNCHANGED bundle
       ELSE /\ bundle' = [bundle EXCEPT !.tmp = Copied(ProjectTree)]
            /\ Goto(p, "ex_pack")
    /\ UNCHANGED <<dirExists, subdirs, disk, lockFile, lockHeld, fdLive, fmFiles,
                   reviewDirs, errorFile, dataFiles, dataPickle, root, cache, touched>>

\* copytree raises part-way
ExCopyFails(p) ==
    /\ pc[p] = "ex_copy"
    /\ dirExists
    /\ bundle.tmp = NoFile
    /\ bundle' = [bundle EXCEPT !.tmp = Torn]
    /\ Return(p, "OSError")
    /\ UNCHANGED <<dirExists, subdirs, disk, lockFile, lockHeld, fdLive, fmFiles,
                   reviewDirs, errorFile, dataFiles, dataPickle, root, cache, touched>>

\* shutil.make_archive(export_fp_tmp, "zip", root_dir=export_fp_tmp)
ExPack(p) ==
    /\ pc[p] = "ex_pack"
    /\ bundle' = [bundle EXCEPT !.zip = Archive(bundle.tmp)]
    /\ Goto(p, "ex_rmtree")
    /\ UNCHANGED <<dirExists, subdirs, disk, lockFile, lockHeld, fdLive, fmFiles,
                   reviewDirs, errorFile, dataFiles, dataPickle, root, cache, touched>>

\* make_archive raises part-way
ExPackFails(p) ==
    /\ pc[p] = "ex_pack"
    /\ bundle' = [bundle EXCEPT !.zip = Torn]
    /\ Return(p, "OSError")
    /\ UNCHANGED <<dirExists, subdirs, disk, lockFile, lockHeld, fdLive, fmFiles,
                   reviewDirs, errorFile, dataFiles, dataPickle, root, cache, touched>>

\* shutil.rmtree(export_fp_tmp)
ExRmtree(p) ==
    /\ pc[p] = "ex_rmtree"
    /\ bundle' = [bundle EXCEPT !.tmp = NoFile]
    /\ Goto(p, "ex_move")
    /\ UNCHANGED <<dirExists, subdirs, disk, lockFile, lockHeld, fdLive, fmFiles,
                   reviewDirs, errorFile, dataFiles, dataPickle, root, cache, touched>>

\* shutil.move(f"{export_fp_tmp}.zip", export_fp): os.rename
ExMove(p) ==
    /\ pc[p] = "ex_move"
    /\ bundle' = [bundle EXCEPT !.dest = bundle.zip, !.zip = NoFile]
    /\ Return(p, "ok")
    /\ UNCHANGED <<dirExists, subdirs, disk, lockFile, lockHeld, fdLive, fmFiles,
                   reviewDirs, errorFile, dataFiles, dataPickle, root, cache, touched>>

\* shutil.move where os.rename onto the existing file raises OSError (Windows):
\* copy2 opens the destination for writing
ExMoveCopyBegin(p) ==
    /\ pc[p] = "ex_move"
    /\ bundle.dest # NoFile
    /\ bundle' = [bundle EXCEPT !.dest = Torn]
    /\ Goto(p, "ex_copying")
    /\ UNCHANGED <<dirExists, subdirs, disk, lockFile, lockHeld, fdLive, fmFiles,
                   reviewDirs, errorFile, dataFiles, dataPickle, root, cache, touched>>

\* copy2 ends, os.unlink(src)
ExMoveCopyEnd(p) ==
    /\ pc[p] = "ex_copying"
    /\ bundle' = [bundle EXCEPT !.dest = bundle.zip, !.zip = NoFile]
    /\ Return(p, "ok")
    /\ UNCHANGED <<dirExists, subdirs, disk, lockFile, lockHeld, fdLive, fmFiles,
                   reviewDirs, errorFile, dataFiles, dataPickle, root, cache, touched>>

\* copy2 raises part-way
ExMoveCopyFails(p) ==
    /\ pc[p] = "ex_copying"
    /\ Return(p, "OSError")
    /\ UNCHANGED <<fsvars, cache, touched>>

\* the files load is given: the export destination, a file that is no zip, a
\* zip without project.json
BundleFiles == {"out.asreview", "notes.txt", "other.zip"}

NotZip == [kind |-> "text"]

OtherTree ==
    [subdirs |-> {}, disk |-> NoFile, lockFile |-> FALSE, fmFiles |-> {},
     reviewDirs |-> {}, errorFile |-> NoFile, dataFiles |-> {"readme.txt"},
     dataPickle |-> NoFile]

FileContent(b, file) ==
    CASE file = "out.asreview" -> b.dest
      [] file = "notes.txt" -> NotZip
      [] OTHER -> Archive(OtherTree)

\* a check that finds project.json in every zip
HasConfigAlways(f) == TRUE

\* PATH_PROJECT_CONFIG in zip_obj.namelist()
HasConfig(f) == f.archive.disk # NoFile

\* zip_obj.extract(f, path=tmpdir) for every name that does not end in .pickle
Extracted(f) == [f.archive EXCEPT !.dataPickle = NoFile]

\* project_config["id"], or uuid4().hex under safe_import
TargetId(f, safe_import, uuid) ==
    IF safe_import THEN uuid ELSE f.archive.disk["id"]

\* an os.replace that takes the place of what is there
CanReplaceAlways(r, id) == TRUE

\* os.replace(tmpdir, Path(project_path, id)) onto a directory that holds
\* files raises OSError
CanReplace(r, id) == r[id] = NoFile

\* how load(asreview_file, project_path, safe_import) ends
LoadResult(file, safe_import, uuid) ==
    LET f == FileContent(bundle, file)
    IN  IF f = NoFile THEN "FileNotFoundError"
        ELSE IF ~IsArchive(f) THEN "ValueError"
        ELSE IF ~HasConfig(f) THEN "ValueError"
        ELSE IF ~IsDoc(f.archive.disk) THEN "JSONDecodeError"
        ELSE IF ~CanReplace(root, TargetId(f, safe_import, uuid)) THEN "OSError"
        ELSE "ok"

\* the tree that load leaves under the projects folder
Loaded(f, safe_import, uuid) ==
    IF safe_import THEN [Extracted(f) EXCEPT !.disk = Merge(@, [id |-> uuid])]
    ELSE Extracted(f)

LoadBundle(p, file, safe_import, uuid) ==
    /\ uuid \in RootIds \ {Stem}
    /\ root[uuid] = NoFile
    /\ LET f == FileContent(bundle, file)
           r == LoadResult(file, safe_import, uuid)
       IN  /\ root' = IF r = "ok"
                      THEN [root EXCEPT ![TargetId(f, safe_import, uuid)] =
                                           Loaded(f, safe_import, uuid)]
                      ELSE root
           /\ Immediate(p, "load",
                        [asreview_file |-> file, safe_import |-> safe_import], r)
    /\ UNCHANGED <<dirExists, subdirs, disk, lockFile, lockHeld, fdLive, fmFiles,
                   reviewDirs, errorFile, dataFiles, dataPickle, bundle, cache>>

(***************************************************************************)
(* One caller: every method, one call after the other                      *)
(***************************************************************************)
InitProcs ==
    /\ pc = [p \in Procs |-> "idle"]
    /\ op = [p \in Procs |-> "none"]
    /\ args = [p \in Procs |-> NoArgs]
    /\ cache = [p \in Procs |-> NoConfig]
    /\ result = [p \in Procs |-> "none"]
    /\ waited = [p \in Procs |-> 0]
    /\ touched = [p \in Procs |-> FALSE]
    /\ hist = [proc |-> "none", op |-> "none", args |-> NoArgs, result |-> "none",
               pre |-> Snapshot, created |-> "none", modeArgs |-> {}, stored |-> {},
               exported |-> NoFile]

\* nothing at the path, or a directory that is no project
Init ==
    /\ dirExists \in BOOLEAN
    /\ subdirs = {}
    /\ disk = NoFile
    /\ lockFile = FALSE
    /\ lockHeld = {}
    /\ fdLive = {}
    /\ fmFiles = {}
    /\ reviewDirs = {}
    /\ errorFile = NoFile
    /\ dataFiles = {}
    /\ dataPickle = NoFile
    /\ bundle = NoBundle
    /\ root = [i \in RootIds |-> NoFile]
    /\ InitProcs

Kwargs == {Ka, Kb, KMode, KBadMode, KBadName, KModeBadName}

Caller == "p1"

Next ==
    \/ NewHandle(Caller)
    \/ \E m \in CreateModes, n \in CreateNames : CreateCheckProject(Caller, m, n)
    \/ CreateCheckDir(Caller)
    \/ CreateMkdir(Caller)
    \/ CreateMkdirFails(Caller)
    \/ CreateSubdirs(Caller)
    \/ CreateOpen(Caller)
    \/ CreateDump(Caller)
    \/ CreateDumpFails(Caller)
    \/ CreateRollback(Caller)
    \/ LockAcquire(Caller)
    \/ GetExists(Caller)
    \/ GetRead(Caller)
    \/ SetOpen(Caller)
    \/ SetDump(Caller)
    \/ \E kwargs \in Kwargs : UpdateConfigStart(Caller, kwargs)
    \/ UpdateConfigMerge(Caller)
    \/ \E m \in Methods, x \in FeatureMatrices : AddFeatureMatrixStart(Caller, m, x)
    \/ AddFeatureMatrixAppend(Caller)
    \/ \E m \in Methods : GetFeatureMatrix(Caller, m)
    \/ \E remove_folders \in BOOLEAN : DeleteReview(Caller, remove_folders)

Spec == Init /\ [][Next]_vars

(***************************************************************************)
(* Two processes on the one path: Project.create, new handles and          *)
(* update_config, every step of one interleaved with every step of the     *)
(* other                                                                   *)
(***************************************************************************)
RaceModes == {"oracle", "archive"}

ConcStep(p) ==
    \/ NewHandle(p)
    \/ \E m \in RaceModes, n \in CreateNames : CreateCheckProject(p, m, n)
    \/ CreateCheckDir(p)
    \/ CreateMkdir(p)
    \/ CreateMkdirFails(p)
    \/ CreateSubdirs(p)
    \/ CreateOpen(p)
    \/ CreateDump(p)
    \/ CreateDumpFails(p)
    \/ CreateRollback(p)
    \/ LockAcquire(p)
    \/ LockPoll(p)
    \/ LockTimeout(p)
    \/ LockNoDir(p)
    \/ GetExists(p)
    \/ GetRead(p)
    \/ SetOpen(p)
    \/ SetDump(p)
    \/ \E kwargs \in {Ka, Kb} : UpdateConfigStart(p, kwargs)
    \/ UpdateConfigMerge(p)

NextConc == \E p \in Procs : ConcStep(p)

SpecConc == Init /\ [][NextConc]_vars

(***************************************************************************)
(* Two processes, each with a new handle on a project that exists, each    *)
(* calling update_config                                                   *)
(***************************************************************************)
InitCreated ==
    /\ dirExists = TRUE
    /\ subdirs = ProjectDirs
    /\ disk = InitialConfig(CreateArgs("oracle", NULL))
    /\ lockFile = TRUE
    /\ lockHeld = {}
    /\ fdLive = {}
    /\ fmFiles = {}
    /\ reviewDirs = {}
    /\ errorFile = NoFile
    /\ dataFiles = {}
    /\ dataPickle = NoFile
    /\ bundle = NoBundle
    /\ root = [i \in RootIds |-> NoFile]
    /\ InitProcs

UpdateStep(p) ==
    \/ \E kwargs \in {Ka, Kb} : cache[p] = NoConfig /\ UpdateConfigStart(p, kwargs)
    \/ GetExists(p)
    \/ GetRead(p)
    \/ UpdateConfigMerge(p)
    \/ SetOpen(p)
    \/ SetDump(p)
    \/ LockAcquire(p)
    \/ LockPoll(p)
    \/ LockTimeout(p)

NextUpdateRace == \E p \in Procs : UpdateStep(p)

SpecUpdateRace == InitCreated /\ [][NextUpdateRace]_vars

(***************************************************************************)
(* One caller on a project that exists: the reviews                        *)
(***************************************************************************)
NextReviews ==
    \/ NewHandle(Caller)
    \/ \E id \in ReviewIds : CreateStateFile(Caller, id)
    \/ \E id \in ReviewIds : AddReview(Caller, id)
    \/ \E id \in ReviewIds \cup {NULL}, s \in Statuses :
          UpdateReview(Caller, id, [status |-> s])
    \/ \E id \in ReviewIds \cup {NULL} : MarkReviewFinished(Caller, id)
    \/ \E err \in Errors : SetError(Caller, err)
    \/ \E s \in Statuses : RemoveError(Caller, s)
    \/ \E remove_folders \in BOOLEAN : DeleteReview(Caller, remove_folders)

SpecReviews == InitCreated /\ [][NextReviews]_vars

(***************************************************************************)
(* Two handles on a project that exists, one call at a time                *)
(***************************************************************************)
HandleStep(p) ==
    \/ NewHandle(p)
    \/ \E id \in ReviewIds : CreateStateFile(p, id)
    \/ \E id \in ReviewIds : AddReview(p, id)
    \/ \E id \in ReviewIds \cup {NULL}, s \in Statuses :
          UpdateReview(p, id, [status |-> s])

NextHandles == \E p \in Procs : HandleStep(p)

SpecHandles == InitCreated /\ [][NextHandles]_vars

(***************************************************************************)
(* The simulate command, run again and again on one path                   *)
(***************************************************************************)
NextSimulate ==
    \/ \E f \in DataNames, id \in ReviewIds : SimCreate(Caller, f, id)
    \/ SimData(Caller)
    \/ SimConfig(Caller)
    \/ SimState(Caller)
    \/ SimAdd(Caller)
    \/ SimTry(Caller)
    \/ SimReview(Caller)
    \/ \E err \in Errors : SimReviewRaises(Caller, err)
    \/ SimExcept(Caller)
    \/ SimFinish(Caller)
    \/ SimExport(Caller)

SpecSimulate == Init /\ [][NextSimulate]_vars

(***************************************************************************)
(* One caller and the dataset of a project                                 *)
(***************************************************************************)
DataKwargs == {[mode |-> "simulate"], [mode |-> "explore"], KModeBadName}

NextData ==
    \/ NewHandle(Caller)
    \/ \E f \in DataNames : PutDataFile(Caller, f)
    \/ \E kwargs \in DataKwargs : UpdateConfigCall(Caller, kwargs)
    \/ \E f \in DataNames, id \in ReviewIds : AddDataset(Caller, f, id)
    \/ \E use_cache \in BOOLEAN, save_cache \in BOOLEAN :
          ReadData(Caller, use_cache, save_cache)
    \/ CleanTmpFiles(Caller)
    \/ RemoveDataset(Caller)
    \/ DeleteCacheFile(Caller)
    \/ TruncateCacheFile(Caller)
    \/ UpgradeRelease(Caller)

SpecData == InitCreated /\ [][NextData]_vars

(***************************************************************************)
(* Two processes reading the dataset of one project                        *)
(***************************************************************************)
\* a project after add_dataset("full.csv")
InitDataset ==
    /\ dirExists = TRUE
    /\ subdirs = ProjectDirs
    /\ disk = Merge(Merge(InitialConfig(CreateArgs("oracle", NULL)),
                          KDataset("full.csv")),
                    [reviews |-> <<[id |-> "r1", start_time |-> Now,
                                    status |-> "setup"]>>])
    /\ lockFile = TRUE
    /\ lockHeld = {}
    /\ fdLive = {}
    /\ fmFiles = {}
    /\ reviewDirs = {"r1"}
    /\ errorFile = NoFile
    /\ dataFiles = {"full.csv"}
    /\ dataPickle = NoFile
    /\ bundle = NoBundle
    /\ root = [i \in RootIds |-> NoFile]
    /\ InitProcs

ReadStep(p) ==
    \/ \E use_cache \in BOOLEAN, save_cache \in BOOLEAN :
          ReadDataStart(p, use_cache, save_cache)
    \/ RdCache(p)
    \/ RdRemove(p)
    \/ RdRemoveDenied(p)
    \/ RdLoad(p)
    \/ RdOpen(p)
    \/ RdDump(p)

NextCacheRace == \E p \in Procs : ReadStep(p)

SpecCacheRace == InitDataset /\ [][NextCacheRace]_vars

(***************************************************************************)
(* One caller exporting a project and loading bundles                      *)
(***************************************************************************)
NextBundle ==
    \/ \E kwargs \in {Ka, Kb} : UpdateConfigCall(Caller, kwargs)
    \/ ReadData(Caller, TRUE, TRUE)
    \/ \E export_fp \in ExportPaths : ExportStart(Caller, export_fp)
    \/ ExCopy(Caller)
    \/ ExCopyFails(Caller)
    \/ ExPack(Caller)
    \/ ExPackFails(Caller)
    \/ ExRmtree(Caller)
    \/ ExMove(Caller)
    \/ ExMoveCopyBegin(Caller)
    \/ ExMoveCopyEnd(Caller)
    \/ ExMoveCopyFails(Caller)
    \/ \E file \in BundleFiles, safe_import \in BOOLEAN, uuid \in RootIds :
          LoadBundle(Caller, file, safe_import, uuid)

SpecBundle == InitDataset /\ [][NextBundle]_vars

(***************************************************************************)
(* Two handles on one project, each call from its first to its last step   *)
(* with no other call in between                                           *)
(***************************************************************************)
\* project.config read through the handle
ReadConfig(p) ==
    /\ Load(p)
    /\ Immediate(p, "config", NoArgs, IF CanRead(p) THEN "ok" ELSE ReadError)
    /\ UNCHANGED <<dirExists, subdirs, lockHeld, fdLive, fmFiles, xfs>>

StaleStep(p) ==
    \/ NewHandle(p)
    \/ ReadConfig(p)
    \/ \E kwargs \in {Ka, Kb, KMode} : UpdateConfigCall(p, kwargs)

NextStale == \E p \in Procs : StaleStep(p)

SpecStale == InitCreated /\ [][NextStale]_vars

(***************************************************************************)
(* Properties                                                              *)
(***************************************************************************)
Quiet == \A p \in Procs : pc[p] = "idle"

CheckErrors == {"ProjectExistsError", "ValueError", "IsADirectoryError"}

\* this step is the return of a call by p
Returns(p) ==
    /\ pc'[p] = "idle"
    /\ hist'.proc = p
    /\ \/ pc[p] # "idle"
       \/ <<hist'.proc, hist'.op, hist'.args, hist'.result>> #
            <<hist.proc, hist.op, hist.args, hist.result>>

C2_RejectedUpdateLeavesDisk ==
    (Quiet /\ hist.op = "update_config"
           /\ hist.result \in {"ValueError", "ValidationError"})
        => disk = hist.pre.disk

\* C2, witness: update_config has raised on a merged document that is not the
\* document on disk.
C2_Rejected ==
    /\ Quiet
    /\ hist.op = "update_config"
    /\ hist.result = "ValidationError"
    /\ IsDoc(disk)
    /\ cache[hist.proc] # disk
    /\ disk = hist.pre.disk

\* C3, as claimed: in every reachable state the control document on disk
\* satisfies the schema, whichever operation wrote it.
C3_Original == IsDoc(disk) => SchemaValid(disk)

\* C4, as claimed: at most one process at a time is between acquiring and
\* releasing the config lock, inside its read or write of project.json.
C4_Original == \A p, q \in Procs : (InCS(p) /\ InCS(q)) => p = q

\* C5, as claimed: an operation that ended with the lock's Timeout has left
\* project.json unchanged.
C5_Original ==
    \A p \in Procs : (pc[p] = "idle" /\ result[p] = "Timeout") => ~touched[p]

BothReturned == \A p \in Procs : pc[p] = "idle" /\ result[p] = "ok"

\* C6: two update_config calls of two processes can overlap so that both return
\* and one caller's field is missing; what is on disk once both have returned is
\* one caller's whole merged document, which satisfies the schema and holds that
\* caller's field.
C6_OneCallersDocument ==
    BothReturned =>
        /\ IsDoc(disk)
        /\ SchemaValid(disk)
        /\ \E p \in Procs : disk = cache[p]
        /\ \/ "a" \in DOMAIN disk /\ disk["a"] = "1"
           \/ "b" \in DOMAIN disk /\ disk["b"] = "2"

\* C6, witness: update_config(a=1) by p1 and update_config(b=2) by p2 have both
\* returned, and the document on disk holds b and not a.
C6_LostUpdate ==
    /\ BothReturned
    /\ "a" \in DOMAIN cache["p1"]
    /\ "b" \in DOMAIN cache["p2"]
    /\ IsDoc(disk)
    /\ "a" \notin DOMAIN disk
    /\ "b" \in DOMAIN disk

C8_Original == IsDoc(disk) => disk["mode"] = hist.created

\* C8, amended: the stored mode is always one of the enum, and it is the mode
\* passed to create or a mode that update_config was given since.
C8_ModeOfCreateOrUpdate ==
    IsDoc(disk) =>
        /\ disk["mode"] \in PROJECT_MODES
        /\ disk["mode"] \in {hist.created} \cup hist.modeArgs

\* C8, witness: update_config(mode=...) has returned and the stored mode is its
\* argument and no longer the mode of create.
C8_ModeChanged ==
    /\ Quiet
    /\ hist.op = "update_config" /\ hist.result = "ok"
    /\ "mode" \in DOMAIN hist.args
    /\ IsDoc(disk)
    /\ disk["mode"] = hist.args["mode"]
    /\ disk["mode"] # hist.created

Existed == hist.pre.disk # NoFile \/ hist.pre.dir

\* C9, as claimed: create on a path that holds a control document or a directory
\* raises one of the two "already exists" errors and leaves the tree as it was.
C9_Original ==
    (Quiet /\ hist.op = "create" /\ Existed)
        => /\ hist.result \in {"ProjectExistsError", "IsADirectoryError"}
           /\ Snapshot = hist.pre

\* C9, amended: create on such a path always fails and leaves the tree as it
\* was; it raises ProjectExistsError when the control document is there, and when
\* only the directory is there IsADirectoryError for a mode of the enum and the
\* mode's ValueError for any other mode.
C9_ExistingPathRefused ==
    (Quiet /\ hist.op = "create" /\ Existed)
        => /\ Snapshot = hist.pre
           /\ hist.result =
                IF hist.pre.disk # NoFile THEN "ProjectExistsError"
                ELSE IF hist.args.mode \in PROJECT_MODES THEN "IsADirectoryError"
                ELSE "ValueError"

\* C9, witness: create has raised ProjectExistsError on a project, which is as
\* it was.
C9_Refused ==
    /\ Quiet
    /\ hist.op = "create"
    /\ hist.result = "ProjectExistsError"
    /\ IsDoc(disk)
    /\ Snapshot = hist.pre

\* C10: after create(path, mode=m) returned, project.json exists, data/,
\* feature_matrices/ and reviews/ exist, and the document has mode m, the
\* running version, no reviews and no feature matrices.
C10_CreatedProject ==
    (Quiet /\ hist.op = "create" /\ hist.result = "ok")
        => /\ is_project
           /\ dirExists
           /\ subdirs = ProjectDirs
           /\ IsDoc(disk)
           /\ disk["mode"] = hist.args.mode
           /\ disk["version"] = VERSION
           /\ disk["reviews"] = <<>>
           /\ disk["feature_matrices"] = <<>>

\* C10, witness: create(path, mode="simulate") has returned.
C10_Created ==
    /\ Quiet
    /\ hist.op = "create" /\ hist.result = "ok"
    /\ hist.args.mode = "simulate"
    /\ is_project
    /\ subdirs = ProjectDirs

\* C17, as claimed: in every reachable state the feature_matrices list of
\* project.json holds at most one record per extraction method.
C17_Original ==
    \A i, j \in 1..Len(Matrices(disk)) :
        Matrices(disk)[i]["id"] = Matrices(disk)[j]["id"] => i = j

C11_Original ==
    \A i, j \in 1..Len(Reviews(disk)) :
        Reviews(disk)[i]["id"] = Reviews(disk)[j]["id"] => i = j

\* the status of the review that update_review(id, ...) addresses in d
StatusAt(d, id) == Reviews(d)[ReviewIndex(Reviews(d), id)]["status"]

StatusOps == {"update_review", "mark_review_finished", "set_error", "remove_error"}

\* a step changes the status of some review that stays in the list
StatusChanges ==
    /\ IsDoc(disk) /\ IsDoc(disk')
    /\ Len(Reviews(disk')) = Len(Reviews(disk))
    /\ \E i \in 1..Len(Reviews(disk)) :
          Reviews(disk')[i]["status"] # Reviews(disk)[i]["status"]

\* the lifecycle of the claim
Lifecycle(a, b) ==
    \/ a = b
    \/ a = "setup" /\ b \in {"running", "review"}
    \/ a \in {"running", "review"} /\ b = "finished"
    \/ a # "finished" /\ b = "error"
    \/ a = "error" /\ hist'.op = "remove_error"

HasErrorReview ==
    \E i \in 1..Len(Reviews(disk)) : Reviews(disk)[i]["status"] = "error"

\* C13, as claimed: in every reachable state, if error.json exists then some
\* review has status error.
C13_Original == errorFile # NoFile => HasErrorReview

\* C13, amended: error.json is written only by a set_error that returns, which
\* also leaves the first review with status error, and it is removed only by
\* remove_error; update_review, mark_review_finished and delete_review leave it
\* where it is, whatever they do to the status.
C13_ErrorFileSetAndCleared ==
    [][errorFile' # errorFile
          => \/ /\ hist'.op = "set_error" /\ hist'.result = "ok"
                /\ errorFile' = ErrorMessage(hist'.args.err)
                /\ StatusAt(disk', NULL) = "error"
             \/ /\ hist'.op = "remove_error"
                /\ errorFile' = NoFile]_vars

\* C13, witness: mark_review_finished has returned, error.json is there and no
\* review has status error.
C13_ErrorFileOutlivesStatus ==
    /\ hist.op = "mark_review_finished" /\ hist.result = "ok"
    /\ errorFile # NoFile
    /\ ~HasErrorReview

\* C14: after set_error(err) the first review has status error and error.json
\* holds err's type name and, in its message, the type name and str(err); after
\* remove_error(s) there is no error.json and the first review has status s.
C14_SetThenRemoveError ==
    /\ (hist.op = "set_error" /\ hist.result = "ok")
          => /\ StatusAt(disk, NULL) = "error"
             /\ errorFile # NoFile
             /\ errorFile.type = hist.args.err.type
             /\ errorFile.message = <<hist.args.err.type, ": ", hist.args.err.str>>
    /\ (hist.op = "remove_error" /\ hist.result = "ok")
          => /\ errorFile = NoFile
             /\ StatusAt(disk, NULL) = hist.args.status

\* C14, witness: remove_error("review") has returned on a project whose first
\* review had status error and whose error.json was there.
C14_ErrorRemoved ==
    /\ hist.op = "remove_error" /\ hist.result = "ok"
    /\ hist.args.status = "review"
    /\ hist.pre.errorFile # NoFile
    /\ Reviews(hist.pre.disk)[1]["status"] = "error"
    /\ errorFile = NoFile
    /\ StatusAt(disk, NULL) = "review"

\* C16, as claimed: update_review(id, ...) changes only the record of the
\* review it addresses: the list keeps its length and order, every other record
\* and every other field of project.json is as before the call.
C16_Original ==
    (hist.op = "update_review" /\ hist.result = "ok")
        => LET old == hist.pre.disk
               i == ReviewIndex(Reviews(old), hist.args.review_id)
           IN  /\ IsDoc(old)
               /\ DOMAIN disk = DOMAIN old
               /\ \A k \in DOMAIN old \ {"reviews"} : disk[k] = old[k]
               /\ Len(Reviews(disk)) = Len(Reviews(old))
               /\ \A j \in 1..Len(Reviews(old)) :
                     j # i => Reviews(disk)[j] = Reviews(old)[j]

\* C15: when the review step of the simulate command raises err, the command
\* ends with err, and at that moment the first review has status error and
\* error.json holds err's type name and, in its message, the type name and
\* str(err).
C15_FailureRecordedThenRaised ==
    [][(pc[Caller] \in {"sim_review", "sim_except"} /\ pc'[Caller] = "idle")
          => /\ pc[Caller] = "sim_except"
             /\ hist'.op = "cli_simulate"
             /\ hist'.result = result[Caller]
             /\ hist'.result \in {e.type : e \in Errors}
             /\ IsDoc(disk')
             /\ Len(Reviews(disk')) >= 1
             /\ Reviews(disk')[1]["status"] = "error"
             /\ errorFile' # NoFile
             /\ errorFile'.type = hist'.result
             /\ errorFile'.message =
                    <<hist'.result, ": ", ErrOf(hist'.result).str>>]_vars

\* C15, witness: the simulate command has ended with the KeyError its review
\* step raised, the review has status error and error.json names the KeyError.
C15_SimulationFailed ==
    /\ pc[Caller] = "idle"
    /\ hist.op = "cli_simulate"
    /\ hist.result = "KeyError"
    /\ Reviews(disk)[1]["status"] = "error"
    /\ errorFile # NoFile
    /\ errorFile.type = "KeyError"

\* the labeling requirement of a mode, met by a dataset with these labels
RequirementMet(mode, labels) ==
    /\ mode = "simulate" => labels = "full"
    /\ mode = "explore" => labels # "none"

\* C19, as claimed: add_dataset of a file that is in data/ ends with ValueError
\* when the dataset does not meet the labeling requirement of the project's
\* mode, and then project.json and reviews/ are as before the call; in oracle
\* mode it never ends with the ValueError of the labeling check.
C19_Original ==
    (/\ hist.op = "add_dataset"
     /\ hist.args.file_name \in hist.pre.dataFiles
     /\ IsDoc(hist.pre.disk))
        => LET mode == hist.pre.disk["mode"]
               labels == Labels(hist.args.file_name)
           IN  /\ ~RequirementMet(mode, labels)
                     => /\ hist.result = "ValueError"
                        /\ disk = hist.pre.disk
                        /\ reviewDirs = hist.pre.reviewDirs
               /\ mode = "oracle" => hist.result # "ValueError"

\* C20, as claimed: in every state read_data(use_cache=True) returns what
\* read_data(use_cache=False) returns in that state.
C20_Original ==
    ReadDataResult(Caller, TRUE) = ReadDataResult(Caller, FALSE)

\* C21, as claimed: read_data(use_cache=True) on a cache that is missing,
\* malformed or of another version never ends with the cache error, afterwards
\* the file it found is no longer there, and the call's result is that of the
\* dataset loader.
C21_Original ==
    (/\ hist.op = "read_data"
     /\ hist.args.use_cache
     /\ \/ hist.pre.dataPickle \in {NoFile, Corrupt}
        \/ hist.pre.dataPickle.version # VERSION)
        => /\ hist.result # "CacheDataError"
           /\ hist.pre.dataPickle # NoFile => dataPickle # hist.pre.dataPickle
           /\ hist.result \in {load_dataset(f) : f \in DataNames}
                                 \cup {"FileNotFoundError"}

\* C22, as claimed: whatever the interleaving of read_data calls of two
\* processes on a project whose dataset is full.csv, every call returns the
\* parse of full.csv.
C22_Original ==
    hist.op = "read_data" => hist.result = load_dataset("full.csv")

\* a tree without tmp/, without tmp/data.pickle and without project.json.lock
NoCacheNoLock(tree) ==
    /\ "tmp" \notin tree.subdirs
    /\ tree.dataPickle = NoFile
    /\ ~tree.lockFile

\* C23: a successful export leaves at the destination an archive of the tree
\* with the project.json that is on disk, without tmp/ and without the lock
\* file; a successful load of that archive puts under the projects folder a
\* tree without cache and lock whose project.json is the exported one, under
\* safe_import with an id that was not in use and nothing else changed.
C23_ExportThenLoad ==
    /\ (pc[Caller] = "idle" /\ hist.op = "export" /\ hist.result = "ok")
          => /\ IsArchive(bundle.dest)
             /\ bundle.dest.archive.disk = disk
             /\ NoCacheNoLock(bundle.dest.archive)
    /\ (pc[Caller] = "idle" /\ hist.op = "load" /\ hist.result = "ok"
            /\ hist.args.asreview_file = "out.asreview")
          => \E id \in RootIds :
                /\ hist.pre.root[id] = NoFile
                /\ root[id] # NoFile
                /\ \A other \in RootIds \ {id} : root[other] = hist.pre.root[other]
                /\ NoCacheNoLock(root[id])
                /\ IF hist.args.safe_import
                   THEN /\ id # hist.exported["id"]
                        /\ root[id].disk = Merge(hist.exported, [id |-> id])
                   ELSE root[id].disk = hist.exported

\* C23, witness: a project with tmp/, a cache file and a lock file was
\* exported and the export was loaded under safe_import.
C23_RoundTrip ==
    /\ pc[Caller] = "idle"
    /\ hist.op = "load" /\ hist.result = "ok"
    /\ hist.args.asreview_file = "out.asreview"
    /\ hist.args.safe_import
    /\ lockFile /\ "tmp" \in subdirs /\ dataPickle # NoFile
    /\ disk = hist.exported
    /\ "a" \in DOMAIN disk
    /\ \E id \in RootIds \ {Stem} : root[id] # NoFile /\ root[id].disk["a"] = "1"

\* C24, as claimed: the export destination never holds a partially written
\* archive, and when export has ended the project's tree is as it was when the
\* call began.
C24_Original ==
    /\ bundle.dest # Torn
    /\ (pc[Caller] = "idle" /\ hist.op = "export")
          => /\ dirExists = hist.pre.dir
             /\ ProjectTree = [k \in DOMAIN ProjectTree |-> hist.pre[k]]

\* C25: load of a file that is there but is no zip, or is a zip without
\* project.json at its top level, ends with ValueError and leaves the projects
\* folder as it was.
C25_InvalidBundleRejected ==
    (/\ pc[Caller] = "idle"
     /\ hist.op = "load"
     /\ LET f == FileContent(hist.pre.bundle, hist.args.asreview_file)
        IN  /\ f # NoFile
            /\ IsArchive(f) => f.archive.disk = NoFile)
        => /\ hist.result = "ValueError"
           /\ root = hist.pre.root

\* C25, witness: load of a zip without project.json has ended with ValueError
\* while the projects folder held a project.
C25_NoConfigRejected ==
    /\ pc[Caller] = "idle"
    /\ hist.op = "load"
    /\ hist.args.asreview_file = "other.zip"
    /\ hist.result = "ValueError"
    /\ root[Stem] # NoFile
    /\ root = hist.pre.root

\* C30: load without safe_import of a bundle whose id already has a directory
\* under the projects folder fails, and the projects folder is as it was.
C30_LoadKeepsExisting ==
    (/\ pc[Caller] = "idle"
     /\ hist.op = "load"
     /\ ~hist.args.safe_import
     /\ LET f == FileContent(hist.pre.bundle, hist.args.asreview_file)
        IN  /\ IsArchive(f)
            /\ IsDoc(f.archive.disk)
            /\ hist.pre.root[f.archive.disk["id"]] # NoFile)
        => /\ hist.result # "ok"
           /\ root = hist.pre.root

\* C30, witness: the project was changed and exported again after a first
\* load, and the second load without safe_import has failed, leaving the
\* project loaded first.
C30_SecondLoadFailed ==
    /\ pc[Caller] = "idle"
    /\ hist.op = "load"
    /\ ~hist.args.safe_import
    /\ hist.args.asreview_file = "out.asreview"
    /\ hist.result = "OSError"
    /\ IsArchive(bundle.dest)
    /\ root[Stem] # NoFile
    /\ root[Stem].disk # bundle.dest.archive.disk

\* C26: on a project that is in order delete_review returns normally whether
\* or not feature_matrices/ and reviews/ could be removed, and when it has
\* returned the reviews and feature_matrices lists of project.json are empty
\* and project.json is there.
C26_DeleteReviewReturns ==
    hist.op = "delete_review"
        => /\ hist.result = "ok"
           /\ is_project
           /\ Reviews(disk) = <<>>
           /\ disk["feature_matrices"] = <<>>

\* C26, witness: delete_review has returned on a project where neither
\* directory was there to remove.
C26_RemovalFailed ==
    /\ hist.op = "delete_review"
    /\ hist.result = "ok"
    /\ hist.pre.subdirs \cap {PATH_FEATURE_MATRICES, "reviews"} = {}
    /\ is_project
    /\ Reviews(disk) = <<>>

\* C27, as claimed: whenever no call is running, every record of the reviews
\* list has its directory reviews/<id>/ and every record of the feature_matrices
\* list has its matrix file.
C27_Original ==
    (Quiet /\ IsDoc(disk))
        => /\ \A i \in 1..Len(Reviews(disk)) : Reviews(disk)[i]["id"] \in reviewDirs
           /\ \A i \in 1..Len(Matrices(disk)) :
                 \E f \in fmFiles : f[1] = Matrices(disk)[i]["id"]

\* C28, as claimed: an update_config that returns normally, with no other call
\* overlapping it, leaves in project.json the document that was there with
\* the keyword arguments merged in, so that a field another handle stored
\* before is still there.
C28_Original ==
    (hist.op = "update_config" /\ hist.result = "ok")
        => disk = Merge(hist.pre.disk, hist.args)

\* C29, as claimed: when a create that has written nothing of project.json
\* runs its rollback while the document of another process's create, which
\* has returned, is on disk, the rollback leaves that document and the tree.
C29_Original ==
    [][\A p \in Procs :
          (/\ pc[p] = "c_rollback"
           /\ pc'[p] = "idle"
           /\ ~touched[p]
           /\ IsDoc(disk)
           /\ \A q \in Procs \ {p} : pc[q] = "idle")
             => /\ disk' = disk
                /\ dirExists'
                /\ subdirs' = subdirs]_vars

====
